---- MODULE Spec2Model ----
(***************************************************************************)
(* Model of the sampling engine of perf_events:                            *)
(*   - the caller thread (sampler, join_with_remaining, drop of the handle)*)
(*   - the worker thread spawned by sampler (src/sample/mod.rs)            *)
(*   - RingBuffer (src/sample/ring_buffer.rs): with_page_capacity, mmap,   *)
(*     head_offset_len, slices, read, set_tail, drop                       *)
(*   - the kernel as the writer of the ring (environment)                  *)
(*   - the construction of the perf_event_attr and of the mapping length   *)
(*     as pure functions of the config (BuildSpec)                         *)
(*   - the Decoder stream of src/sample/record.rs, which is not part of    *)
(*     the sources at hand and is modelled from the specification          *)
(* One unit of the data region stands for one record; the record written   *)
(* k-th by the kernel carries the value k, untouched memory reads as 0.    *)
(***************************************************************************)
EXTENDS Integers, Sequences, FiniteSets, TLC

\* ---------------------------------------------------------------- bounds
\* page_size() of the host, in units
PageSize == 2
\* number of pages RingBuffer::new asks for (8192 in the source), scaled
NumPages == 4
\* size_of::<perf_event_mmap_page>(), smaller than a page as on the host
SizeofMmapPage == 1
\* number of records the kernel writes before the event goes quiet
MaxRecords == 8
\* largest buffer the decoder passes to RingBuffer::read
MaxBufLen == 4
\* number of readiness events the reactor delivers without a kernel write
MaxSpurious == 1
\* longest list of SampleRequests in a SamplingConfig
MaxRequests == 2
\* largest value carried by a SamplingRate or a WakeupConfig
MaxValue == 1
\* page counts handed to with_page_capacity are 2^0 .. 2^MaxPagesLog2
MaxPagesLog2 == 3
\* the first MaxMalformed records of the kernel may be records the decoder
\* cannot parse although their size is consistent (a kind it does not know)
MaxMalformed == 1
\* largest pid of PidConfig::Other
MaxPid == 2
\* largest cpu index of CpuConfig::Specific
MaxCpu == 1

\* ------------------------------------------------------- pure functions

Min(a, b) ==
  IF a <= b THEN a ELSE b

\* RingBuffer::mmap, the rounding of the requested length to whole pages
MmapLength(min_len) ==
  LET remainder == min_len % PageSize
  IN  IF remainder = 0 THEN min_len ELSE (min_len - remainder) + PageSize

\* RingBuffer::with_page_capacity, the size handed to mmap
RequestedSize(num_pages) ==
  (num_pages + 1) * SizeofMmapPage

\* self.len of the RingBuffer built by RingBuffer::new
MapLen ==
  MmapLength(RequestedSize(NumPages))

\* data_offset and data_size as the kernel sets them at map time: the data
\* region follows the one metadata page and fills the rest of the mapping
KernelDataOffset ==
  PageSize

KernelDataSize ==
  MapLen - PageSize

\* slices that never splits: one slice of len bytes from the offset on
slices_no_wrap(offset, len) ==
  <<len, 0>>

\* RingBuffer::slices: the lengths of the two slices for (offset, len)
slices(offset, len) ==
  LET natural_first_end == offset + len
  IN  IF natural_first_end < MapLen
        THEN <<len, 0>>
        ELSE <<MapLen - offset, len - (MapLen - offset)>>

\* the data region after the kernel has written one record of len units at
\* the offset (an offset of the mapping, inside the data region) of an empty
\* ring: unit i of the record has the value i, the record wraps at the end
\* of the region, untouched memory is 0
RecordInRing(offset, len) ==
  [a \in 0..(KernelDataSize - 1) |->
     LET i == (a - (offset - KernelDataOffset)) % KernelDataSize
     IN  IF i < len THEN i + 1 ELSE 0]

\* RingBuffer::slices, the two slices themselves over a data region mem: the
\* first is taken at map + offset, the second at map + page_size(); a byte
\* outside the data region is not a byte of a record
RingBuffer_slices(mem, offset, len) ==
  LET sl == slices(offset, len)
      byte(addr) == IF addr >= KernelDataOffset /\ addr < MapLen
                      THEN mem[addr - KernelDataOffset]
                      ELSE 0
  IN  [first |-> [i \in 1..sl[1] |-> byte(offset + i - 1)],
       second |-> [i \in 1..sl[2] |-> byte(PageSize + i - 1)]]

\* ------------------------------------------------- the misc field, decoded

\* the values of the kernel's perf_event.h that sys.rs matches against
PERF_RECORD_MISC_CPUMODE_MASK == 7
PERF_RECORD_MISC_CPUMODE_UNKNOWN == 0
PERF_RECORD_MISC_KERNEL == 1
PERF_RECORD_MISC_USER == 2
PERF_RECORD_MISC_HYPERVISOR == 3
PERF_RECORD_MISC_GUEST_KERNEL == 4
PERF_RECORD_MISC_GUEST_USER == 5
PERF_RECORD_MISC_MMAP_DATA == 2^13
PERF_RECORD_MISC_EXACT_IP == 2^14
PERF_RECORD_MISC_EXT_RESERVED == 2^15

\* a | b on unsigned integers
RECURSIVE BitOr(_, _)
BitOr(a, b) ==
  IF a = 0 THEN b
  ELSE IF b = 0 THEN a
  ELSE (IF a % 2 = 1 \/ b % 2 = 1 THEN 1 ELSE 0) + 2 * BitOr(a \div 2, b \div 2)

\* impl From<u16> for CpuMode: match n as u32 | PERF_RECORD_MISC_CPUMODE_MASK
CpuMode_from(n) ==
  LET m == BitOr(n, PERF_RECORD_MISC_CPUMODE_MASK)
  IN  CASE m = PERF_RECORD_MISC_CPUMODE_UNKNOWN -> "Unknown"
        [] m = PERF_RECORD_MISC_KERNEL -> "Kernel"
        [] m = PERF_RECORD_MISC_USER -> "User"
        [] m = PERF_RECORD_MISC_HYPERVISOR -> "Hypervisor"
        [] m = PERF_RECORD_MISC_GUEST_KERNEL -> "GuestKernel"
        [] m = PERF_RECORD_MISC_GUEST_USER -> "GuestUser"
        [] OTHER -> "panic"

\* impl From<u16> for Misc: the fields are evaluated in the order written, a
\* panic of CpuMode::from leaves no Misc
Misc_from(n) ==
  IF CpuMode_from(n) = "panic"
    THEN [panicked |-> TRUE]
    ELSE [panicked |-> FALSE,
          cpu_mode |-> CpuMode_from(n),
          multipurpose_lol |-> BitOr(n, PERF_RECORD_MISC_MMAP_DATA) # 0,
          exact_ip |-> BitOr(n, PERF_RECORD_MISC_EXACT_IP) # 0,
          reserved |-> BitOr(n, PERF_RECORD_MISC_EXT_RESERVED) # 0]


\* --------------------------------------------- perf_event_attr, as built

\* the variants of enum SampleRequest (the payload of BranchStack is not
\* looked at by apply)
SampleRequests ==
  {"InstructionPointer", "Address", "Read", "Callchain", "Period", "Raw",
   "RegistersUser", "StackUser", "Weight", "DataSource", "Transaction",
   "RegistersIntr", "BranchStack"}

\* SampleRequest::apply, the match: the perf_event_sample_format code of a
\* request. Every code is one bit; a u64 of such bits is modelled as the set
\* of the bits that are 1, so that bitwise OR is set union.
PERF_SAMPLE(request) ==
  CASE request = "InstructionPointer" -> "PERF_SAMPLE_IP"
    [] request = "Address" -> "PERF_SAMPLE_ADDR"
    [] request = "Read" -> "PERF_SAMPLE_READ"
    [] request = "Callchain" -> "PERF_SAMPLE_CALLCHAIN"
    [] request = "Period" -> "PERF_SAMPLE_PERIOD"
    [] request = "Raw" -> "PERF_SAMPLE_RAW"
    [] request = "RegistersUser" -> "PERF_SAMPLE_REGS_USER"
    [] request = "StackUser" -> "PERF_SAMPLE_STACK_USER"
    [] request = "Weight" -> "PERF_SAMPLE_WEIGHT"
    [] request = "DataSource" -> "PERF_SAMPLE_DATA_SRC"
    [] request = "Transaction" -> "PERF_SAMPLE_TRANSACTION"
    [] request = "RegistersIntr" -> "PERF_SAMPLE_REGS_INTR"
    [] request = "BranchStack" -> "PERF_SAMPLE_BRANCH_STACK"

\* std::mem::zeroed::<perf_event_attr>(): the fields the builder touches and
\* three it never touches; the two unions are one field each
zeroed ==
  [type_ |-> 0, size |-> 0, config |-> 0, sample_period_freq |-> 0,
   sample_type |-> {}, read_format |-> 0, disabled |-> 0, inherit |-> 0,
   exclude_kernel |-> 0, exclude_hv |-> 0, freq |-> 0, watermark |-> 0,
   sample_id_all |-> 0, wakeup_events_watermark |-> 0,
   branch_sample_type |-> 0]

\* SamplingRate::apply
SamplingRate_apply(a, rate) ==
  IF rate.kind = "Period"
    THEN [a EXCEPT !.sample_period_freq = rate.value]
    ELSE [a EXCEPT !.freq = 1, !.sample_period_freq = rate.value]

\* WakeupConfig::apply
WakeupConfig_apply(a, wakeup) ==
  IF wakeup.kind = "NumSamples"
    THEN [a EXCEPT !.wakeup_events_watermark = wakeup.value]
    ELSE [a EXCEPT !.watermark = 1, !.wakeup_events_watermark = wakeup.value]

\* SampleRequest::apply: attr.sample_type = <code of the request> as u64
SampleRequest_apply(a, request) ==
  [a EXCEPT !.sample_type = {PERF_SAMPLE(request)}]

\* for request in &self.requests { request.apply(attr) }
RECURSIVE apply_requests(_, _, _)
apply_requests(a, requests, i) ==
  IF i > Len(requests)
    THEN a
    ELSE apply_requests(SampleRequest_apply(a, requests[i]), requests, i + 1)

\* impl PerfEventAttrThingy for SamplingConfig: type_ = PERF_TYPE_SOFTWARE
\* (1), config = PERF_COUNT_SW_DUMMY (9), then rate, wakeup and requests
SamplingConfig_apply(a, c) ==
  LET a1 == [a EXCEPT !.type_ = 1, !.config = 9]
      a2 == SamplingRate_apply(a1, c.rate)
      a3 == WakeupConfig_apply(a2, c.wakeup)
  IN  apply_requests(a3, c.requests, 1)

\* Event::as_raw for a sampled event: a zeroed struct, the config applied,
\* size = size_of::<perf_event_attr>() (112 bytes), exclude_kernel,
\* exclude_hv, disabled when asked for, inherit
as_raw(c, disabled) ==
  LET a1 == SamplingConfig_apply(zeroed, c)
      a2 == [a1 EXCEPT !.size = 112]
      a3 == [a2 EXCEPT !.exclude_kernel = 1, !.exclude_hv = 1]
      a4 == IF disabled THEN [a3 EXCEPT !.disabled = 1] ELSE a3
  IN  [a4 EXCEPT !.inherit = 1]

\* the inputs of the builder
SamplingRates ==
  [kind : {"Period", "Frequency"}, value : 0..MaxValue]

WakeupConfigs ==
  [kind : {"NumSamples", "WatermarkBytes"}, value : 0..MaxValue]

RequestLists ==
  UNION {[1..n -> SampleRequests] : n \in 0..MaxRequests}

SamplingConfigs ==
  [rate : SamplingRates, wakeup : WakeupConfigs, requests : RequestLists,
   sample_id_all : BOOLEAN]

RECURSIVE Pow2(_)
Pow2(k) ==
  IF k = 0 THEN 1 ELSE 2 * Pow2(k - 1)

\* the page counts that are powers of two
PageCounts ==
  {Pow2(k) : k \in 0..MaxPagesLog2}

\* the arguments of libc::mmap in RingBuffer::mmap
MmapProt ==
  {"PROT_READ", "PROT_WRITE"}

MmapFlags ==
  "MAP_PRIVATE"

MmapOffset ==
  0

\* one entry of the log of system calls
Syscall(call, ok) ==
  [call |-> call, ok |-> ok]


\* ---------------------------------------------------- PerfFile::new, pure

\* the errnos that impl From<Errno> for OpenError names
NamedErrnos ==
  {"E2BIG", "EACCES", "EBADF", "EBUSY", "EFAULT", "EINVAL", "EMFILE", "ENODEV",
   "ENOENT", "ENOSPC", "ENOSYS", "EOPNOTSUPP", "EOVERFLOW", "EPERM", "ESRCH"}

\* some of the errnos that fall into the `_` arm
OtherErrnos ==
  {"EAGAIN", "EINTR", "ENOMEM"}

\* impl From<Errno> for OpenError with the EINVAL arm left out: EINVAL falls
\* into the `_` arm
OpenError_from_without_EINVAL(errno) ==
  CASE errno = "E2BIG" -> [variant |-> "AttrWrongSize"]
    [] errno = "EACCES" -> [variant |-> "CapSysAdminRequired"]
    [] errno = "EBADF" -> [variant |-> "InvalidFdOrPid"]
    [] errno = "EBUSY" -> [variant |-> "PmuBusy"]
    [] errno = "EFAULT" -> [variant |-> "AttrInvalidPointer"]
    [] errno = "EMFILE" -> [variant |-> "TooManyOpenFiles"]
    [] errno = "ENODEV" -> [variant |-> "CpuFeatureUnsupported"]
    [] errno = "ENOENT" -> [variant |-> "InvalidEventType"]
    [] errno = "ENOSPC" -> [variant |-> "TooManyBreakpoints"]
    [] errno = "ENOSYS" -> [variant |-> "UserStackSampleUnsupported"]
    [] errno = "EOPNOTSUPP" -> [variant |-> "HardwareFeatureUnsupported"]
    [] errno = "EOVERFLOW" -> [variant |-> "SampleMaxStackTooLarge"]
    [] errno = "EPERM" -> [variant |-> "CapSysAdminRequiredOrExcludeUnsupported"]
    [] errno = "ESRCH" -> [variant |-> "ProcessDoesNotExist"]
    [] OTHER -> [variant |-> "Unknown", errno |-> errno]

\* impl From<Errno> for OpenError
OpenError_from(errno) ==
  CASE errno = "E2BIG" -> [variant |-> "AttrWrongSize"]
    [] errno = "EACCES" -> [variant |-> "CapSysAdminRequired"]
    [] errno = "EBADF" -> [variant |-> "InvalidFdOrPid"]
    [] errno = "EBUSY" -> [variant |-> "PmuBusy"]
    [] errno = "EFAULT" -> [variant |-> "AttrInvalidPointer"]
    [] errno = "EINVAL" -> [variant |-> "InvalidEvent"]
    [] errno = "EMFILE" -> [variant |-> "TooManyOpenFiles"]
    [] errno = "ENODEV" -> [variant |-> "CpuFeatureUnsupported"]
    [] errno = "ENOENT" -> [variant |-> "InvalidEventType"]
    [] errno = "ENOSPC" -> [variant |-> "TooManyBreakpoints"]
    [] errno = "ENOSYS" -> [variant |-> "UserStackSampleUnsupported"]
    [] errno = "EOPNOTSUPP" -> [variant |-> "HardwareFeatureUnsupported"]
    [] errno = "EOVERFLOW" -> [variant |-> "SampleMaxStackTooLarge"]
    [] errno = "EPERM" -> [variant |-> "CapSysAdminRequiredOrExcludeUnsupported"]
    [] errno = "ESRCH" -> [variant |-> "ProcessDoesNotExist"]
    [] OTHER -> [variant |-> "Unknown", errno |-> errno]

\* impl From<OpenError> for Error
Error_from_OpenError(inner) ==
  [variant |-> "FdOpen", inner |-> inner]

\* enum PidConfig and enum CpuConfig
PidConfigs ==
  {[kind |-> "Current"]} \cup [kind : {"Other"}, value : 1..MaxPid]

CpuConfigs ==
  {[kind |-> "All"]} \cup [kind : {"Specific"}, value : 0..MaxCpu]

\* PidConfig::raw
PidConfig_raw(pid) ==
  IF pid.kind = "Current" THEN 0 - 1 ELSE pid.value

\* CpuConfig::raw
CpuConfig_raw(cpu) ==
  IF cpu.kind = "All" THEN 0 - 1 ELSE cpu.value

\* PerfFile::new for a config with the given pid and cpu, when the kernel
\* answers the syscall with ret ("fd" or the errno that comes with -1): the
\* four arguments after &attr, and the value returned
PerfFile_new_pure(pid, cpu, ret) ==
  [args |-> <<PidConfig_raw(pid), CpuConfig_raw(cpu), 0 - 1, 0>>,
   value |-> IF ret = "fd"
               THEN [variant |-> "Ok"]
               ELSE [variant |-> "Err",
                     inner |-> Error_from_OpenError(OpenError_from(ret))],
   file |-> (ret = "fd")]


\* ------------------------------------------------------------------ state

VARIABLES
  data_head,      \* perf_event_mmap_page.data_head, written by the kernel
  data_tail,      \* perf_event_mmap_page.data_tail, written by set_tail
  data,           \* the data region, one unit per record
  readable,       \* the fd is marked readable (wakeup threshold crossed)
  spurious,       \* readiness events delivered without a kernel write
  enabled,        \* PERF_EVENT_IOC_ENABLE has succeeded
  fd,             \* "none", "open" or "closed": the PerfFile
  mapped,         \* the mapping of the RingBuffer exists
  workerPc,       \* position of the worker thread
  workerErr,      \* the Err(why) that f() returned, "none" otherwise
  decoder,        \* "none", "spawned" or "aborted": the Decoder task
  rdBufLen,       \* buf.len() of the read in progress
  rdHead,         \* head as computed by head_offset_len
  rdLen,          \* len of the read in progress
  rdBuf,          \* the bytes copied into buf
  sendIdx,        \* next unit of rdBuf the decoder turns into a record
  records,        \* the records channel (unbounded)
  errors,         \* the errors channel (bounded(1))
  stop,           \* the oneshot: "pending", "sent" or "canceled"
  callerPc,       \* position of the caller thread
  samplerResult,  \* what sampler(config) returned: "none" or "ok"
  joinResult,     \* what join_with_remaining returned
  returned,       \* the vector returned by join_with_remaining
  memlog,         \* memory events of the read in progress, in program order
  handed,         \* concatenation of the bytes handed out by all reads
  headSeen,       \* the raw data_head loaded by the read in progress
  tailSeen,       \* data_tail at the time of that load
  headAtStop,     \* data_head when the worker observed the stop, else -1
  startupFailed,  \* the startup step that failed, "none" otherwise
  panicCause,     \* "none", "assert" (head_offset_len) or "unwrap" (block_on)
  syscalls,       \* the system calls of the session so far, in program order
  lastError,      \* the error the worker reported last, "none" before
  joinErr,        \* the error join_with_remaining returned, "none" otherwise
  cfg,            \* the SamplingConfig an attribute is built from
  num_pages,      \* the page count given to with_page_capacity
  attr,           \* the perf_event_attr handed to perf_event_open
  length,         \* the length handed to libc::mmap
  buildPc,        \* position of the construction: "idle" in a session
  fncall,         \* a function of the crate and its arguments, to be applied
  result          \* <<what that function returned>>, <<>> before

samplerVars ==
  <<data_head, data_tail, data, readable, spurious, enabled, fd, mapped, workerPc,
    workerErr, decoder, rdBufLen, rdHead, rdLen, rdBuf, sendIdx, records,
    errors, stop, callerPc, samplerResult, joinResult, returned, memlog,
    handed, headSeen, tailSeen, headAtStop, startupFailed, panicCause,
    syscalls, lastError, joinErr>>

buildVars ==
  <<cfg, num_pages, attr, length, buildPc>>

fnVars ==
  <<fncall, result>>

vars ==
  <<samplerVars, buildVars, fnVars>>

kernelVars ==
  <<data_head, data, readable, spurious>>

readVars ==
  <<rdBufLen, rdHead, rdLen, rdBuf, sendIdx, memlog, handed, headSeen, tailSeen>>

callerVars ==
  <<callerPc, samplerResult, joinResult, returned, joinErr>>

InitSampler ==
  /\ data_head = 0
  /\ data_tail = 0
  /\ data = [i \in 0..(KernelDataSize - 1) |-> 0]
  /\ readable = FALSE
  /\ spurious = 0
  /\ enabled = FALSE
  /\ fd = "none"
  /\ mapped = FALSE
  /\ workerPc = "unspawned"
  /\ workerErr = "none"
  /\ decoder = "none"
  /\ rdBufLen = 0
  /\ rdHead = 0
  /\ rdLen = 0
  /\ rdBuf = <<>>
  /\ sendIdx = 1
  /\ records = <<>>
  /\ errors = <<>>
  /\ stop = "pending"
  /\ callerPc = "start"
  /\ samplerResult = "none"
  /\ joinResult = "none"
  /\ returned = <<>>
  /\ memlog = <<>>
  /\ handed = <<>>
  /\ headSeen = 0
  /\ tailSeen = 0
  /\ headAtStop = -1
  /\ startupFailed = "none"
  /\ panicCause = "none"
  /\ syscalls = <<>>
  /\ lastError = "none"
  /\ joinErr = "none"

\* a sampling session: construction is part of the worker's startup, the
\* variables of the stand-alone construction rest
Init ==
  /\ InitSampler
  /\ cfg = [rate |-> [kind |-> "Period", value |-> 1],
            wakeup |-> [kind |-> "NumSamples", value |-> 1],
            requests |-> <<>>, sample_id_all |-> FALSE]
  /\ num_pages = NumPages
  /\ attr = zeroed
  /\ length = 0
  /\ buildPc = "idle"
  /\ fncall = [fn |-> "none"]
  /\ result = <<>>

\* the byte at an offset of the mapping: the metadata page holds no record
MapByte(addr) ==
  IF addr >= KernelDataOffset /\ addr < KernelDataOffset + KernelDataSize
    THEN data[addr - KernelDataOffset]
    ELSE 0

WorkerTerminated ==
  workerPc \in {"done", "panicked"}

\* a log entry of mmap or munmap with the length that was passed
Mapping(c, len) ==
  [call |-> c, ok |-> TRUE, len |-> len]

\* a RingBuffer whose fields are dropped before its Drop::drop has run: the
\* fd is closed first, the mapping is removed afterwards
Released_close_first(log) ==
  log \o (IF fd = "open" THEN <<Syscall("close", TRUE)>> ELSE <<>>)
      \o (IF mapped THEN <<Mapping("munmap", MapLen)>> ELSE <<>>)

\* what is built so far goes out of scope: impl Drop for RingBuffer calls
\* munmap(self.map, self.len), then the fields are dropped and the File of
\* the PerfFile closes the fd; a PerfFile without a RingBuffer is just closed
Released(log) ==
  log \o (IF mapped THEN <<Mapping("munmap", MapLen)>> ELSE <<>>)
      \o (IF fd = "open" THEN <<Syscall("close", TRUE)>> ELSE <<>>)

\* ----------------------------------------------------------------- kernel

\* The kernel appends one record at data_head and, when the wakeup
\* threshold is crossed, marks the fd readable. A record the decoder cannot
\* parse carries the negated value. With a writable mapping it
\* does not overwrite data the reader has not released through data_tail.
KernelWrite ==
  /\ enabled
  /\ fd = "open"
  /\ mapped
  /\ data_head < MaxRecords
  /\ data_head - data_tail < KernelDataSize
  /\ \E malformed \in {FALSE, data_head < MaxMalformed} :
       data' = [data EXCEPT ![data_head % KernelDataSize] =
                  IF malformed THEN 0 - (data_head + 1) ELSE data_head + 1]
  /\ data_head' = data_head + 1
  /\ \E wakeup \in BOOLEAN : readable' = (readable \/ wakeup)
  /\ UNCHANGED <<spurious, data_tail, enabled, fd, mapped, workerPc, workerErr, decoder,
                 records, errors, stop, headAtStop, startupFailed, panicCause>>
  /\ UNCHANGED readVars
  /\ UNCHANGED callerVars
  /\ UNCHANGED buildVars
  /\ UNCHANGED fnVars
  /\ UNCHANGED syscalls
  /\ UNCHANGED lastError

\* The reactor reports the registered fd readable although the kernel has
\* not crossed a wakeup threshold (readiness events are hints).
SpuriousWakeup ==
  /\ fd = "open"
  /\ decoder = "spawned"
  /\ ~readable
  /\ spurious < MaxSpurious
  /\ readable' = TRUE
  /\ spurious' = spurious + 1
  /\ UNCHANGED <<data_head, data, data_tail, enabled, fd, mapped, workerPc,
                 workerErr, decoder, records, errors, stop, headAtStop,
                 startupFailed, panicCause>>
  /\ UNCHANGED readVars
  /\ UNCHANGED callerVars
  /\ UNCHANGED buildVars
  /\ UNCHANGED fnVars
  /\ UNCHANGED syscalls
  /\ UNCHANGED lastError

\* ----------------------------------------------------------------- caller

\* sampler(): creates the three channels, spawns the worker thread and
\* returns Ok(SamplerHandle); everything else happens on the worker
sampler ==
  /\ callerPc = "start"
  /\ callerPc' = "running"
  /\ samplerResult' = "ok"
  /\ workerPc' = "runtime_new"
  /\ UNCHANGED <<joinResult, returned, joinErr, data_tail, enabled, fd, mapped, workerErr,
                 decoder, records, errors, stop, headAtStop, startupFailed,
                 panicCause>>
  /\ UNCHANGED kernelVars
  /\ UNCHANGED readVars
  /\ UNCHANGED buildVars
  /\ UNCHANGED fnVars
  /\ UNCHANGED syscalls
  /\ UNCHANGED lastError

\* join_with_remaining, up to the blocking join: self.stop.send(StopSampling),
\* whose result is ignored (the receiver may be gone already)
join_send_stop ==
  /\ callerPc = "running"
  /\ callerPc' = "joining"
  /\ stop' = IF stop = "pending" THEN "sent" ELSE stop
  /\ UNCHANGED <<samplerResult, joinResult, returned, joinErr, data_tail, enabled, fd,
                 mapped, workerPc, workerErr, decoder, records, errors,
                 headAtStop, startupFailed, panicCause>>
  /\ UNCHANGED kernelVars
  /\ UNCHANGED readVars
  /\ UNCHANGED buildVars
  /\ UNCHANGED fnVars
  /\ UNCHANGED syscalls
  /\ UNCHANGED lastError

\* a join that does not look at the result of self.sampler.join(): a worker
\* that panicked is treated like one that returned
join_return_ignores_panic ==
  /\ callerPc = "joining"
  /\ WorkerTerminated
  /\ callerPc' = "returned"
  /\ IF errors # <<>>
       THEN /\ joinResult' = "err"
            /\ joinErr' = Head(errors)
            /\ errors' = Tail(errors)
            /\ UNCHANGED <<returned, records>>
       ELSE /\ joinResult' = "ok"
            /\ returned' = records
            /\ records' = <<>>
            /\ UNCHANGED <<errors, joinErr>>
  /\ UNCHANGED <<samplerResult, data_tail, enabled, fd, mapped, workerPc,
                 workerErr, decoder, stop, headAtStop, startupFailed, panicCause>>
  /\ UNCHANGED kernelVars
  /\ UNCHANGED readVars
  /\ UNCHANGED buildVars
  /\ UNCHANGED fnVars
  /\ UNCHANGED syscalls
  /\ UNCHANGED lastError

\* join_with_remaining, from the return of self.sampler.join() on: a panic
\* becomes Error::Misc, a queued error is returned, else the records are
\* collected
join_return ==
  /\ callerPc = "joining"
  /\ WorkerTerminated
  /\ callerPc' = "returned"
  /\ IF workerPc = "panicked"
       THEN /\ joinResult' = "err_panic"
            /\ UNCHANGED <<returned, records, errors, joinErr>>
       ELSE IF errors # <<>>
         THEN /\ joinResult' = "err"
              /\ joinErr' = Head(errors)
              /\ errors' = Tail(errors)
              /\ UNCHANGED <<returned, records>>
         ELSE /\ joinResult' = "ok"
              /\ returned' = records
              /\ records' = <<>>
              /\ UNCHANGED <<errors, joinErr>>
  /\ UNCHANGED <<samplerResult, data_tail, enabled, fd, mapped, workerPc,
                 workerErr, decoder, stop, headAtStop, startupFailed, panicCause>>
  /\ UNCHANGED kernelVars
  /\ UNCHANGED readVars
  /\ UNCHANGED buildVars
  /\ UNCHANGED fnVars
  /\ UNCHANGED syscalls
  /\ UNCHANGED lastError

\* the SamplerHandle goes out of scope without a join: the oneshot Sender is
\* dropped unsent, which the Receiver observes as Canceled
drop_handle ==
  /\ callerPc = "running"
  /\ callerPc' = "dropped"
  /\ stop' = IF stop = "pending" THEN "canceled" ELSE stop
  /\ UNCHANGED <<samplerResult, joinResult, returned, joinErr, data_tail, enabled, fd,
                 mapped, workerPc, workerErr, decoder, records, errors,
                 headAtStop, startupFailed, panicCause>>
  /\ UNCHANGED kernelVars
  /\ UNCHANGED readVars
  /\ UNCHANGED buildVars
  /\ UNCHANGED fnVars
  /\ UNCHANGED syscalls
  /\ UNCHANGED lastError

\* --------------------------------------------------------- worker: startup

\* f() leaves with Err(why): whatever was built so far is dropped (munmap
\* of the mapping, then close of the fd)
Fail(step, why) ==
  /\ startupFailed' = step
  /\ workerErr' = why
  /\ workerPc' = "report_error"
  /\ mapped' = FALSE
  /\ fd' = IF fd = "open" THEN "closed" ELSE fd

\* Runtime::new()?
Runtime_new ==
  /\ workerPc = "runtime_new"
  /\ \E ok \in BOOLEAN :
       IF ok
         THEN /\ workerPc' = "PerfFile_new"
              /\ UNCHANGED <<startupFailed, workerErr, mapped, fd>>
         ELSE Fail("runtime", "Read")
  /\ UNCHANGED <<data_tail, enabled, decoder, records, errors, stop, headAtStop,
                 panicCause>>
  /\ UNCHANGED kernelVars
  /\ UNCHANGED readVars
  /\ UNCHANGED callerVars
  /\ UNCHANGED buildVars
  /\ UNCHANGED fnVars
  /\ UNCHANGED syscalls
  /\ UNCHANGED lastError

\* PerfFile::new: the perf_event_open syscall, -1 becomes Error::FdOpen
PerfFile_new ==
  /\ workerPc = "PerfFile_new"
  /\ \E ok \in BOOLEAN :
       /\ syscalls' = Append(syscalls, Syscall("perf_event_open", ok))
       /\ IF ok
            THEN /\ workerPc' = "mmap"
                 /\ fd' = "open"
                 /\ UNCHANGED <<startupFailed, workerErr, mapped>>
            ELSE Fail("open", "FdOpen")
  /\ UNCHANGED <<data_tail, enabled, decoder, records, errors, stop, headAtStop,
                 panicCause>>
  /\ UNCHANGED kernelVars
  /\ UNCHANGED readVars
  /\ UNCHANGED callerVars
  /\ UNCHANGED buildVars
  /\ UNCHANGED fnVars
  /\ UNCHANGED lastError

\* RingBuffer::mmap with `let _ = fcntl(fd, arg);` in place of
\* `let _ = fcntl(fd, arg)?;`: a failed fcntl is ignored and the fd is mapped
mmap_ignores_fcntl ==
  /\ workerPc = "mmap"
  /\ \E outcome \in {"ok", "fcntl_failed", "map_failed"} :
       CASE outcome = "ok" ->
              /\ syscalls' = syscalls \o <<Syscall("fcntl", TRUE), Mapping("mmap", MapLen)>>
              /\ workerPc' = "enable_fd"
              /\ mapped' = TRUE
              /\ UNCHANGED <<startupFailed, workerErr, fd>>
         [] outcome = "fcntl_failed" ->
              /\ syscalls' = syscalls \o <<Syscall("fcntl", FALSE), Mapping("mmap", MapLen)>>
              /\ workerPc' = "enable_fd"
              /\ mapped' = TRUE
              /\ UNCHANGED <<startupFailed, workerErr, fd>>
         [] outcome = "map_failed" ->
              /\ syscalls' = Released(syscalls \o <<Syscall("fcntl", TRUE), Syscall("mmap", FALSE)>>)
              /\ Fail("mmap", "Mmap")
  /\ UNCHANGED <<data_tail, enabled, decoder, records, errors, stop, headAtStop,
                 panicCause>>
  /\ UNCHANGED kernelVars
  /\ UNCHANGED readVars
  /\ UNCHANGED callerVars
  /\ UNCHANGED buildVars
  /\ UNCHANGED fnVars
  /\ UNCHANGED lastError

\* RingBuffer::mmap as called by with_page_capacity: fcntl(F_SETFL), then
\* libc::mmap of MapLen bytes
mmap ==
  /\ workerPc = "mmap"
  /\ \E outcome \in {"ok", "fcntl_failed", "map_failed"} :
       CASE outcome = "ok" ->
              /\ syscalls' = syscalls \o <<Syscall("fcntl", TRUE), Mapping("mmap", MapLen)>>
              /\ workerPc' = "enable_fd"
              /\ mapped' = TRUE
              /\ UNCHANGED <<startupFailed, workerErr, fd>>
         [] outcome = "fcntl_failed" ->
              /\ syscalls' = Released(Append(syscalls, Syscall("fcntl", FALSE)))
              /\ Fail("fcntl", "Posix")
         [] outcome = "map_failed" ->
              /\ syscalls' = Released(syscalls \o <<Syscall("fcntl", TRUE), Syscall("mmap", FALSE)>>)
              /\ Fail("mmap", "Mmap")
  /\ UNCHANGED <<data_tail, enabled, decoder, records, errors, stop, headAtStop,
                 panicCause>>
  /\ UNCHANGED kernelVars
  /\ UNCHANGED readVars
  /\ UNCHANGED callerVars
  /\ UNCHANGED buildVars
  /\ UNCHANGED fnVars
  /\ UNCHANGED lastError

\* `let _ = buffer.enable_fd();` in place of `buffer.enable_fd()?;`: the
\* decoder is spawned whether or not the ioctl succeeded
enable_fd_unchecked ==
  /\ workerPc = "enable_fd"
  /\ \E ok \in BOOLEAN :
       /\ syscalls' = Append(syscalls, Syscall("ioctl_enable", ok))
       /\ workerPc' = "spawn_decoder"
       /\ enabled' = ok
       /\ UNCHANGED <<startupFailed, workerErr, mapped, fd>>
  /\ UNCHANGED <<data_tail, decoder, records, errors, stop, headAtStop, panicCause>>
  /\ UNCHANGED kernelVars
  /\ UNCHANGED readVars
  /\ UNCHANGED callerVars
  /\ UNCHANGED buildVars
  /\ UNCHANGED fnVars
  /\ UNCHANGED lastError

\* buffer.enable_fd()?: PerfFile::enable, the PERF_EVENT_IOC_ENABLE ioctl
enable_fd ==
  /\ workerPc = "enable_fd"
  /\ \E ok \in BOOLEAN :
       /\ IF ok
            THEN /\ syscalls' = Append(syscalls, Syscall("ioctl_enable", ok))
                 /\ workerPc' = "spawn_decoder"
                 /\ enabled' = TRUE
                 /\ UNCHANGED <<startupFailed, workerErr, mapped, fd>>
            ELSE /\ syscalls' = Released(Append(syscalls, Syscall("ioctl_enable", ok)))
                 /\ Fail("enable", "Posix")
                 /\ UNCHANGED enabled
  /\ UNCHANGED <<data_tail, decoder, records, errors, stop, headAtStop, panicCause>>
  /\ UNCHANGED kernelVars
  /\ UNCHANGED readVars
  /\ UNCHANGED callerVars
  /\ UNCHANGED buildVars
  /\ UNCHANGED fnVars
  /\ UNCHANGED lastError

\* rt.spawn(Decoder::new(buffer, record_sender, error_sender).for_each(..));
\* the Decoder owns the buffer it reads into, of some fixed length
spawn_decoder ==
  /\ workerPc = "spawn_decoder"
  /\ workerPc' = "block_on"
  /\ decoder' = "spawned"
  /\ \E n \in 1..MaxBufLen : rdBufLen' = n
  /\ UNCHANGED <<rdHead, rdLen, rdBuf, sendIdx, memlog, handed, headSeen, tailSeen>>
  /\ UNCHANGED <<data_tail, enabled, fd, mapped, workerErr, records, errors, stop,
                 headAtStop, startupFailed, panicCause>>
  /\ UNCHANGED kernelVars
  /\ UNCHANGED callerVars
  /\ UNCHANGED buildVars
  /\ UNCHANGED fnVars
  /\ UNCHANGED syscalls
  /\ UNCHANGED lastError

\* if let Err(why) = f() { outer_error_sender.send(why) }: a send into the
\* bounded(1) channel, which waits while the channel is full
report_error ==
  /\ workerPc = "report_error"
  /\ Len(errors) < 1
  /\ errors' = Append(errors, workerErr)
  /\ lastError' = workerErr
  /\ workerPc' = "done"
  /\ UNCHANGED <<data_tail, enabled, fd, mapped, workerErr, decoder, records, stop,
                 headAtStop, startupFailed, panicCause>>
  /\ UNCHANGED kernelVars
  /\ UNCHANGED readVars
  /\ UNCHANGED callerVars
  /\ UNCHANGED buildVars
  /\ UNCHANGED fnVars
  /\ UNCHANGED syscalls

\* a worker that runs its executor without looking at a sent StopSampling:
\* it leaves the loop only when the oneshot is canceled
block_on_shutdown_ignores_stop ==
  /\ workerPc = "block_on"
  /\ stop = "canceled"
  /\ workerPc' = "panicked"
  /\ panicCause' = "unwrap"
  /\ headAtStop' = data_head
  /\ mapped' = FALSE
  /\ fd' = "closed"
  /\ UNCHANGED <<data_tail, enabled, workerErr, decoder, records, errors, stop,
                 startupFailed>>
  /\ UNCHANGED kernelVars
  /\ UNCHANGED readVars
  /\ UNCHANGED callerVars
  /\ UNCHANGED buildVars
  /\ UNCHANGED fnVars
  /\ syscalls' = Released(syscalls)
  /\ UNCHANGED lastError

\* rt.block_on(shutdown).unwrap(): block_on polls the shutdown future before
\* each turn of the executor. Ok(StopSampling) ends f() with Ok(()), without
\* another look at the ring; Err(Canceled) makes unwrap() panic. Either way
\* the runtime and with it the Decoder and its RingBuffer are dropped.
block_on_shutdown ==
  /\ workerPc = "block_on"
  /\ stop # "pending"
  /\ IF stop = "sent"
       THEN /\ workerPc' = "done"
            /\ UNCHANGED panicCause
       ELSE /\ workerPc' = "panicked"
            /\ panicCause' = "unwrap"
  /\ headAtStop' = data_head
  /\ mapped' = FALSE
  /\ fd' = "closed"
  /\ UNCHANGED <<data_tail, enabled, workerErr, decoder, records, errors, stop,
                 startupFailed>>
  /\ UNCHANGED kernelVars
  /\ UNCHANGED readVars
  /\ UNCHANGED callerVars
  /\ UNCHANGED buildVars
  /\ UNCHANGED fnVars
  /\ syscalls' = Released(syscalls)
  /\ UNCHANGED lastError

\* ------------------------------------------------- worker: the decode loop

\* the Decoder task is polled because the reactor reports the fd readable
\* and calls RingBuffer::read with its buffer
Decoder_poll ==
  /\ workerPc = "block_on"
  /\ stop = "pending"
  /\ decoder = "spawned"
  /\ readable
  /\ workerPc' = "head_offset_len"
  /\ memlog' = <<>>
  /\ rdBuf' = <<>>
  /\ sendIdx' = 1
  /\ UNCHANGED <<rdBufLen, rdHead, rdLen, handed, headSeen, tailSeen>>
  /\ UNCHANGED <<data_tail, enabled, fd, mapped, workerErr, decoder, records,
                 errors, stop, headAtStop, startupFailed, panicCause>>
  /\ UNCHANGED kernelVars
  /\ UNCHANGED callerVars
  /\ UNCHANGED buildVars
  /\ UNCHANGED fnVars
  /\ UNCHANGED syscalls
  /\ UNCHANGED lastError

\* head_offset_len: head = data_head as usize % self.len
head_offset_len_load ==
  /\ workerPc = "head_offset_len"
  /\ rdHead' = data_head % MapLen
  /\ syscalls' = IF \E i \in 1..Len(syscalls) : syscalls[i].call = "ring_read"
                   THEN syscalls
                   ELSE Append(syscalls, Syscall("ring_read", TRUE))
  /\ headSeen' = data_head
  /\ tailSeen' = data_tail
  /\ memlog' = Append(memlog, "load_head")
  /\ workerPc' = "assert"
  /\ UNCHANGED <<rdBufLen, rdLen, rdBuf, sendIdx, handed>>
  /\ UNCHANGED <<data_tail, enabled, fd, mapped, workerErr, decoder, records,
                 errors, stop, headAtStop, startupFailed, panicCause>>
  /\ UNCHANGED kernelVars
  /\ UNCHANGED callerVars
  /\ UNCHANGED buildVars
  /\ UNCHANGED fnVars
  /\ UNCHANGED lastError

\* head_offset_len: assert!(offset <= head); a failed assertion unwinds the
\* worker thread, dropping the runtime and the RingBuffer
head_offset_len_assert ==
  /\ workerPc = "assert"
  /\ IF KernelDataOffset <= rdHead
       THEN /\ workerPc' = "fence_acquire"
            /\ UNCHANGED <<panicCause, mapped, fd, syscalls>>
       ELSE /\ workerPc' = "panicked"
            /\ syscalls' = Released(syscalls)
            /\ panicCause' = "assert"
            /\ mapped' = FALSE
            /\ fd' = "closed"
  /\ UNCHANGED <<data_tail, enabled, workerErr, decoder, records, errors, stop,
                 headAtStop, startupFailed>>
  /\ UNCHANGED kernelVars
  /\ UNCHANGED readVars
  /\ UNCHANGED callerVars
  /\ UNCHANGED buildVars
  /\ UNCHANGED fnVars
  /\ UNCHANGED lastError

\* head_offset_len without its fence(Ordering::Acquire): the data region is
\* read right after the load of data_head
head_offset_len_fence_missing ==
  /\ workerPc = "fence_acquire"
  /\ rdLen' = KernelDataSize
  /\ workerPc' = "copy"
  /\ UNCHANGED <<rdBufLen, rdHead, rdBuf, sendIdx, memlog, handed, headSeen, tailSeen>>
  /\ UNCHANGED <<data_tail, enabled, fd, mapped, workerErr, decoder, records,
                 errors, stop, headAtStop, startupFailed, panicCause>>
  /\ UNCHANGED kernelVars
  /\ UNCHANGED callerVars
  /\ UNCHANGED buildVars
  /\ UNCHANGED fnVars
  /\ UNCHANGED syscalls
  /\ UNCHANGED lastError

\* head_offset_len: len = data_size; fence(Ordering::Acquire)
head_offset_len_fence ==
  /\ workerPc = "fence_acquire"
  /\ rdLen' = KernelDataSize
  /\ memlog' = Append(memlog, "fence_acquire")
  /\ workerPc' = "copy"
  /\ UNCHANGED <<rdBufLen, rdHead, rdBuf, sendIdx, handed, headSeen, tailSeen>>
  /\ UNCHANGED <<data_tail, enabled, fd, mapped, workerErr, decoder, records,
                 errors, stop, headAtStop, startupFailed, panicCause>>
  /\ UNCHANGED kernelVars
  /\ UNCHANGED callerVars
  /\ UNCHANGED buildVars
  /\ UNCHANGED fnVars
  /\ UNCHANGED syscalls
  /\ UNCHANGED lastError

\* read: len = len.min(buf.len()); the two slices of slices(offset, len) are
\* copied into buf, the second one taken at map + page_size. The copy is one
\* step: of the outcomes of a copy that races with a kernel write it is the
\* one in which the write falls before or after the whole copy.
read_copy ==
  /\ workerPc = "copy"
  /\ LET len == Min(rdLen, rdBufLen)
         sl == slices(KernelDataOffset, len)
         first == [i \in 1..sl[1] |-> MapByte(KernelDataOffset + i - 1)]
         second == [i \in 1..sl[2] |-> MapByte(PageSize + i - 1)]
     IN  /\ rdLen' = len
         /\ rdBuf' = first \o second
  /\ memlog' = Append(memlog, "read_data")
  /\ workerPc' = "fence_release"
  /\ UNCHANGED <<rdBufLen, rdHead, sendIdx, handed, headSeen, tailSeen>>
  /\ UNCHANGED <<data_tail, enabled, fd, mapped, workerErr, decoder, records,
                 errors, stop, headAtStop, startupFailed, panicCause>>
  /\ UNCHANGED kernelVars
  /\ UNCHANGED callerVars
  /\ UNCHANGED buildVars
  /\ UNCHANGED fnVars
  /\ UNCHANGED syscalls
  /\ UNCHANGED lastError

\* set_tail: fence(Ordering::Release)
set_tail_fence ==
  /\ workerPc = "fence_release"
  /\ memlog' = Append(memlog, "fence_release")
  /\ workerPc' = "store_tail"
  /\ UNCHANGED <<rdBufLen, rdHead, rdLen, rdBuf, sendIdx, handed, headSeen, tailSeen>>
  /\ UNCHANGED <<data_tail, enabled, fd, mapped, workerErr, decoder, records,
                 errors, stop, headAtStop, startupFailed, panicCause>>
  /\ UNCHANGED kernelVars
  /\ UNCHANGED callerVars
  /\ UNCHANGED buildVars
  /\ UNCHANGED fnVars
  /\ UNCHANGED syscalls
  /\ UNCHANGED lastError

\* set_tail(head): (*self.metadata).data_tail = new_tail; read returns Ok(len)
set_tail_store ==
  /\ workerPc = "store_tail"
  /\ data_tail' = rdHead
  /\ memlog' = Append(memlog, "store_tail")
  /\ handed' = handed \o rdBuf
  /\ workerPc' = "decode"
  /\ UNCHANGED <<rdBufLen, rdHead, rdLen, rdBuf, sendIdx, headSeen, tailSeen>>
  /\ UNCHANGED <<enabled, fd, mapped, workerErr, decoder, records, errors, stop,
                 headAtStop, startupFailed, panicCause>>
  /\ UNCHANGED kernelVars
  /\ UNCHANGED callerVars
  /\ UNCHANGED buildVars
  /\ UNCHANGED fnVars
  /\ UNCHANGED syscalls
  /\ UNCHANGED lastError

\* the decoder sends the next decoded record on the records channel
Decoder_send_record ==
  /\ workerPc = "decode"
  /\ sendIdx <= Len(rdBuf)
  /\ rdBuf[sendIdx] > 0
  /\ records' = Append(records, rdBuf[sendIdx])
  /\ sendIdx' = sendIdx + 1
  /\ UNCHANGED <<rdBufLen, rdHead, rdLen, rdBuf, memlog, handed, headSeen, tailSeen>>
  /\ UNCHANGED <<data_tail, enabled, fd, mapped, workerPc, workerErr, decoder,
                 errors, stop, headAtStop, startupFailed, panicCause>>
  /\ UNCHANGED kernelVars
  /\ UNCHANGED callerVars
  /\ UNCHANGED buildVars
  /\ UNCHANGED fnVars
  /\ UNCHANGED syscalls
  /\ UNCHANGED lastError

\* the decoder reports e on the errors channel without ever waiting. The
\* channel is the bounded(1) channel of sampler() and the worker holds only
\* Senders of it: a message that is queued stays queued until the caller
\* receives it, so an error reported while the channel is full is not stored
try_send(chan, e) ==
  IF Len(chan) < 1 THEN Append(chan, e) ELSE chan

\* a record whose size is consistent but which cannot be parsed is a decode
\* error that is not fatal: it is reported and the decoder goes on with the
\* next record
Decoder_skip_malformed ==
  /\ workerPc = "decode"
  /\ sendIdx <= Len(rdBuf)
  /\ rdBuf[sendIdx] < 0
  /\ errors' = try_send(errors, "DecodeMalformed")
  /\ lastError' = "DecodeMalformed"
  /\ sendIdx' = sendIdx + 1
  /\ UNCHANGED <<rdBufLen, rdHead, rdLen, rdBuf, memlog, handed, headSeen, tailSeen>>
  /\ UNCHANGED <<data_tail, enabled, fd, mapped, workerPc, workerErr, decoder,
                 records, stop, headAtStop, startupFailed, panicCause>>
  /\ UNCHANGED kernelVars
  /\ UNCHANGED callerVars
  /\ UNCHANGED buildVars
  /\ UNCHANGED fnVars
  /\ UNCHANGED syscalls

\* a header whose size is below 8 (zeroed memory) is a decode error: it is
\* reported on the errors channel and the session is aborted
Decoder_send_error ==
  /\ workerPc = "decode"
  /\ sendIdx <= Len(rdBuf)
  /\ rdBuf[sendIdx] = 0
  /\ errors' = try_send(errors, "Decode")
  /\ lastError' = "Decode"
  /\ decoder' = "aborted"
  /\ workerPc' = "block_on"
  /\ UNCHANGED <<data_tail, enabled, fd, mapped, workerErr, records, stop,
                 headAtStop, startupFailed, panicCause>>
  /\ UNCHANGED kernelVars
  /\ UNCHANGED readVars
  /\ UNCHANGED callerVars
  /\ UNCHANGED buildVars
  /\ UNCHANGED fnVars
  /\ UNCHANGED syscalls

\* the ring is drained: the decoder clears its readiness and yields
Decoder_clear_readiness ==
  /\ workerPc = "decode"
  /\ sendIdx > Len(rdBuf)
  /\ readable' = FALSE
  /\ workerPc' = "block_on"
  /\ UNCHANGED <<data_head, data, spurious>>
  /\ UNCHANGED <<data_tail, enabled, fd, mapped, workerErr, decoder, records,
                 errors, stop, headAtStop, startupFailed, panicCause>>
  /\ UNCHANGED readVars
  /\ UNCHANGED callerVars
  /\ UNCHANGED buildVars
  /\ UNCHANGED fnVars
  /\ UNCHANGED syscalls
  /\ UNCHANGED lastError

\* ------------------------------------------------------------ specification

Caller ==
  \/ sampler
  \/ join_send_stop
  \/ join_return
  \/ drop_handle

Worker ==
  \/ Runtime_new
  \/ PerfFile_new
  \/ mmap
  \/ enable_fd
  \/ spawn_decoder
  \/ report_error
  \/ block_on_shutdown
  \/ Decoder_poll
  \/ head_offset_len_load
  \/ head_offset_len_assert
  \/ head_offset_len_fence
  \/ read_copy
  \/ set_tail_fence
  \/ set_tail_store
  \/ Decoder_send_record
  \/ Decoder_skip_malformed
  \/ Decoder_send_error
  \/ Decoder_clear_readiness

Next ==
  \/ KernelWrite
  \/ SpuriousWakeup
  \/ Caller
  \/ Worker

Spec ==
  Init /\ [][Next]_vars

\* ---------------------------------------- construction as a pure function

\* construction on its own: for every SamplingConfig and every page count
BuildInit ==
  /\ InitSampler
  /\ cfg \in SamplingConfigs
  /\ num_pages \in PageCounts
  /\ attr = zeroed
  /\ length = 0
  /\ buildPc = "start"
  /\ fncall = [fn |-> "none"]
  /\ result = <<>>

\* PerfEventFile::new with event.as_raw(false): the event is created running
PerfEventFile_new_enabled ==
  /\ buildPc = "start"
  /\ attr' = as_raw(cfg, FALSE)
  /\ buildPc' = "opened"
  /\ UNCHANGED <<cfg, num_pages, length>>
  /\ UNCHANGED samplerVars
  /\ UNCHANGED fnVars

\* PerfEventFile::new: syscall(SYS_perf_event_open, &event.as_raw(true), ..)
PerfEventFile_new ==
  /\ buildPc = "start"
  /\ attr' = as_raw(cfg, TRUE)
  /\ buildPc' = "opened"
  /\ UNCHANGED <<cfg, num_pages, length>>
  /\ UNCHANGED samplerVars
  /\ UNCHANGED fnVars

\* RingBuffer::with_page_capacity: size = (num_pages + 1) * size_of::<
\* perf_event_mmap_page>(), rounded up to whole pages by RingBuffer::mmap
with_page_capacity ==
  /\ buildPc = "opened"
  /\ length' = MmapLength(RequestedSize(num_pages))
  /\ buildPc' = "mapped"
  /\ UNCHANGED <<cfg, num_pages, attr>>
  /\ UNCHANGED samplerVars
  /\ UNCHANGED fnVars

BuildNext ==
  \/ PerfEventFile_new
  \/ with_page_capacity

BuildSpec ==
  BuildInit /\ [][BuildNext]_vars

\* ------------------------------------------------- functions on their own

\* the calls of PerfFile::new: every pid and cpu of a config, every answer
\* of the kernel
PerfFile_new_calls ==
  [fn : {"PerfFile_new"}, pid : PidConfigs, cpu : CpuConfigs,
   ret : {"fd"} \cup NamedErrnos \cup OtherErrnos]

\* the calls of RingBuffer::slices: every offset of the data region and
\* every length up to its size
slices_calls ==
  [fn : {"slices"}, offset : KernelDataOffset..(MapLen - 1),
   len : 0..KernelDataSize]

\* the calls of Misc::from: every u16
Misc_from_calls ==
  [fn : {"Misc_from"}, misc : 0..(2^16 - 1)]

FnCalls ==
  PerfFile_new_calls \cup slices_calls \cup Misc_from_calls

\* one call of one function, not yet applied
FnInit ==
  /\ InitSampler
  /\ cfg = [rate |-> [kind |-> "Period", value |-> 1],
            wakeup |-> [kind |-> "NumSamples", value |-> 1],
            requests |-> <<>>, sample_id_all |-> FALSE]
  /\ num_pages = NumPages
  /\ attr = zeroed
  /\ length = 0
  /\ buildPc = "idle"
  /\ fncall \in FnCalls
  /\ result = <<>>

\* PerfFile::new
PerfFile_new_apply ==
  /\ fncall.fn = "PerfFile_new"
  /\ result = <<>>
  /\ result' = <<PerfFile_new_pure(fncall.pid, fncall.cpu, fncall.ret)>>
  /\ UNCHANGED fncall
  /\ UNCHANGED samplerVars
  /\ UNCHANGED buildVars

\* RingBuffer::slices on a ring that holds one record at the offset, the two
\* slices copied one after the other as RingBuffer::read does
slices_apply ==
  /\ fncall.fn = "slices"
  /\ result = <<>>
  /\ LET sl == RingBuffer_slices(RecordInRing(fncall.offset, fncall.len),
                                 fncall.offset, fncall.len)
     IN  result' = <<[bytes |-> sl.first \o sl.second,
                      first_len |-> Len(sl.first),
                      second_len |-> Len(sl.second)]>>
  /\ UNCHANGED fncall
  /\ UNCHANGED samplerVars
  /\ UNCHANGED buildVars

\* Misc::from
Misc_from_apply ==
  /\ fncall.fn = "Misc_from"
  /\ result = <<>>
  /\ result' = <<Misc_from(fncall.misc)>>
  /\ UNCHANGED fncall
  /\ UNCHANGED samplerVars
  /\ UNCHANGED buildVars

FnNext ==
  \/ PerfFile_new_apply
  \/ slices_apply
  \/ Misc_from_apply

FnSpec ==
  FnInit /\ [][FnNext]_vars

\* the worker thread is scheduled fairly, and a caller that is inside
\* join_with_remaining runs on when the worker has terminated
FairSpec ==
  Spec /\ WF_vars(Worker) /\ WF_vars(join_return)

\* ------------------------------------------------------------------ claims

Range(seq) ==
  {seq[i] : i \in 1..Len(seq)}

\* the records of seq arrive in the order of the ring's data stream: no
\* record is delivered after a record the kernel wrote later
InRingOrder(seq) ==
  \A i \in 1..Len(seq) : \A j \in 1..Len(seq) :
    i < j => seq[i] <= seq[j]

\* C1: records reach the caller in ring order, on the records channel and in
\* the vector returned by join_with_remaining
C1_RecordsInRingOrder ==
  InRingOrder(records) /\ InRingOrder(returned)

\* C2: when a read has returned, the concatenation of the bytes handed out by
\* all reads so far is exactly the stream the kernel wrote from the initial
\* tail up to the head that read observed: nothing lost, nothing duplicated
C2_NoLossNoDuplication ==
  workerPc = "decode" => handed = [i \in 1..headSeen |-> i]

\* C3: data_tail never exceeds data_head, and no store of set_tail lowers
\* the published data_tail
C3_TailMonotonicAndBounded ==
  [](data_tail <= data_head) /\ [][data_tail' >= data_tail]_vars

\* C4: the data_tail published by a read step is the previous data_tail plus
\* the number of bytes that step handed to the consumer (all values of the
\* model are far below 2^64, so the sum does not wrap)
C4_TailAdvancesByBytesHanded ==
  [][(workerPc = "store_tail" /\ workerPc' = "decode")
       => data_tail' = data_tail + Len(rdBuf)]_vars

\* C5: in every read the load of data_head is followed by an acquire fence
\* before the data region is read, and the store to data_tail is preceded by
\* a release fence that comes after the last read of the data region
C5_FencesOrdered ==
  /\ \A i \in 1..Len(memlog) :
       memlog[i] = "read_data" =>
         \E j \in 1..(i - 1) :
           /\ memlog[j] = "fence_acquire"
           /\ \E k \in 1..(j - 1) : memlog[k] = "load_head"
  /\ \A i \in 1..Len(memlog) :
       memlog[i] = "store_tail" =>
         \E j \in 1..(i - 1) :
           /\ memlog[j] = "fence_release"
           /\ \A k \in (j + 1)..(i - 1) : memlog[k] # "read_data"
           /\ \E k \in 1..(j - 1) : memlog[k] = "read_data"

\* a read ran to its end: head loaded, data copied, tail stored
C5_Witness ==
  /\ workerPc = "decode"
  /\ Len(memlog) = 5
  /\ memlog[5] = "store_tail"
  /\ rdBuf # <<>>

\* C6: a read of an empty ring (head equals tail when head is loaded, also
\* with data_head = 0) does not panic, hands out nothing and leaves
\* data_tail where it was
C6_EmptyReadIsNoop ==
  /\ ~(panicCause = "assert" /\ headSeen = tailSeen)
  /\ (workerPc = "decode" /\ headSeen = tailSeen)
       => (rdBuf = <<>> /\ data_tail = tailSeen)

\* C7: when a startup step fails, sampler(config) has not returned
\* Ok(SamplerHandle) and no decoder runs
C7_StartupFailureSynchronous ==
  startupFailed # "none" => (samplerResult # "ok" /\ decoder = "none")

C9_DropLikeStop ==
  (callerPc = "dropped" /\ headAtStop >= 0)
    => (workerPc = "done" /\ panicCause = "none")

\* C10: the records in the ring when the worker observes the stop signal are
\* sent on the records channel before the worker returns, and a successful
\* join_with_remaining returns them
C10_DrainOnStop ==
  (workerPc = "done" /\ stop = "sent" /\ headAtStop >= 0 /\ errors = <<>>)
    => /\ \A k \in 1..headAtStop : k \in Range(records) \cup Range(returned)
       /\ joinResult = "ok" => \A k \in 1..headAtStop : k \in Range(returned)

\* C11: when the worker thread has panicked, join_with_remaining returns (the
\* panic stays on the worker thread) and its result is the error that
\* describes the panic, never Ok and never another error
C11_PanicSurfacedAtJoin ==
  (callerPc = "returned" /\ workerPc = "panicked") => joinResult = "err_panic"

\* the worker panicked in head_offset_len and the caller has joined
C11_Witness ==
  /\ callerPc = "returned"
  /\ workerPc = "panicked"
  /\ panicCause = "assert"
  /\ joinResult = "err_panic"

\* C12: the errors channel never holds more than one error; no report of the
\* worker waits (a worker about to report its startup error finds room in
\* the channel); and the error join_with_remaining returns is the one the
\* worker reported last
C12_LastErrorSurfaced ==
  /\ Len(errors) <= 1
  /\ workerPc = "report_error" => Len(errors) < 1
  /\ joinResult = "err" => joinErr = lastError

\* C13: the step in which join_with_remaining returns hands over every
\* record that is in the records channel, and with it the queued error if
\* there is one; with no record sent, no error reported and no panic it
\* returns Ok with an empty vector
C13_JoinReturnsRemaining ==
  [][(callerPc = "joining" /\ callerPc' = "returned")
       => /\ returned' = records
          /\ errors # <<>> => joinErr' = Head(errors)
          /\ (records = <<>> /\ errors = <<>> /\ workerPc = "done")
               => (joinResult' = "ok" /\ returned' = <<>> /\ joinErr' = "none")]_vars

\* the positions of a call in the log of system calls
Calls(call) ==
  {i \in 1..Len(syscalls) : syscalls[i].call = call}

\* C14: the enable ioctl is issued at most once, exactly once in a session
\* whose decoder was spawned; the first read of the ring comes after the
\* successful ioctl, and after a failed ioctl the ring is never read
C14_EnableOnceBeforeRead ==
  /\ Cardinality(Calls("ioctl_enable")) <= 1
  /\ decoder # "none" => Cardinality(Calls("ioctl_enable")) = 1
  /\ \A i \in Calls("ring_read") :
       \E j \in 1..(i - 1) : syscalls[j] = Syscall("ioctl_enable", TRUE)
  /\ (\E j \in Calls("ioctl_enable") : ~syscalls[j].ok)
       => (Calls("ring_read") = {} /\ decoder = "none")

\* the ring has been read in a session whose enable succeeded
C14_Witness ==
  /\ Calls("ring_read") # {}
  /\ Calls("ioctl_enable") # {}
  /\ handed # <<>>

\* C15: mmap is called only after a successful fcntl(F_SETFL); when the fcntl
\* fails, mmap is not called, nothing is mapped and the construction ends
\* with the error of the fcntl
C15_FcntlBeforeMmap ==
  /\ \A i \in Calls("mmap") :
       \E j \in 1..(i - 1) : syscalls[j] = Syscall("fcntl", TRUE)
  /\ (\E j \in Calls("fcntl") : ~syscalls[j].ok)
       => /\ Calls("mmap") = {}
          /\ ~mapped
          /\ startupFailed = "fcntl"
          /\ workerErr = "Posix"

\* the fd was switched to async mode and then mapped
C15_Witness ==
  /\ mapped
  /\ Calls("mmap") # {}
  /\ Calls("fcntl") # {}

\* C16: constructing the ring buffer with N pages, N a power of two, maps
\* (N + 1) * PageSize bytes, of which all but the metadata page, N * PageSize
\* bytes, are the data region
C16_MapsNPlusOnePages ==
  buildPc = "mapped"
    => /\ length = (num_pages + 1) * PageSize
       /\ length - PageSize = num_pages * PageSize

\* what the kernel sees of data_tail: stores to a MAP_PRIVATE mapping go to a
\* copy of the page that belongs to the process, the kernel's page keeps the
\* initial 0
KernelVisibleTail ==
  IF MmapFlags = "MAP_SHARED" THEN data_tail ELSE 0

\* C17: the ring is mapped PROT_READ|PROT_WRITE, MAP_SHARED, at offset 0, and
\* the kernel observes the data_tail that set_tail stored
C17_MappedSharedReadWrite ==
  mapped
    => /\ MmapProt = {"PROT_READ", "PROT_WRITE"}
       /\ MmapFlags = "MAP_SHARED"
       /\ MmapOffset = 0
       /\ KernelVisibleTail = data_tail

\* C18: the sample_type of the attribute built from a config is the OR of
\* the codes of all its requests: the bit of every request and no other bit
C18_SampleTypeIsOrOfRequests ==
  buildPc # "start"
    => attr.sample_type =
         {PERF_SAMPLE(cfg.requests[i]) : i \in 1..Len(cfg.requests)}

\* C19: in the attribute built, freq is 1 exactly for a Frequency rate and
\* the rate union holds the value of the rate, watermark is 1 exactly for
\* WatermarkBytes and the wakeup union holds the value of the wakeup, and the
\* fields the config does not specify are zero
C19_FlagsAndZeroDefaults ==
  buildPc # "start"
    => /\ attr.freq = (IF cfg.rate.kind = "Frequency" THEN 1 ELSE 0)
       /\ attr.sample_period_freq = cfg.rate.value
       /\ attr.watermark = (IF cfg.wakeup.kind = "WatermarkBytes" THEN 1 ELSE 0)
       /\ attr.wakeup_events_watermark = cfg.wakeup.value
       /\ attr.read_format = 0
       /\ attr.branch_sample_type = 0
       /\ attr.exclude_kernel = 0
       /\ attr.exclude_hv = 0
       /\ attr.inherit = 0

C21_ErrnoMapping ==
  (fncall.fn = "PerfFile_new" /\ result # <<>> /\ fncall.ret # "fd")
    => /\ result[1].value.variant = "Err"
       /\ result[1].value.inner.variant = "FdOpen"
       /\ ~result[1].file
       /\ LET e == result[1].value.inner.inner
          IN  /\ fncall.ret = "EINVAL" => e = [variant |-> "InvalidEvent"]
              /\ fncall.ret \in NamedErrnos
                   => /\ e.variant # "Unknown"
                      /\ \A other \in NamedErrnos \ {fncall.ret} :
                           OpenError_from(other) # e
              /\ fncall.ret \notin NamedErrnos
                   => e = [variant |-> "Unknown", errno |-> fncall.ret]

\* the kernel answered EINVAL and PerfFile::new returned
C21_Witness ==
  /\ fncall.fn = "PerfFile_new"
  /\ fncall.ret = "EINVAL"
  /\ result # <<>>

\* C22: perf_event_open is called with pid 0 for the current process and the
\* given pid for another one, with cpu -1 for all CPUs and the given index
\* otherwise, and with group fd -1 and flags 0
C22_OpenArguments ==
  (fncall.fn = "PerfFile_new" /\ result # <<>>)
    => /\ result[1].args[1] = (IF fncall.pid.kind = "Current" THEN 0 ELSE fncall.pid.value)
       /\ result[1].args[2] = (IF fncall.cpu.kind = "All" THEN 0 - 1 ELSE fncall.cpu.value)
       /\ result[1].args[3] = 0 - 1
       /\ result[1].args[4] = 0

\* C26: the sample_id_all flag of the attribute built equals the
\* sample_id_all field of the SamplingConfig
C26_SampleIdAllMapped ==
  buildPc # "start"
    => attr.sample_id_all = (IF cfg.sample_id_all THEN 1 ELSE 0)

\* a config that the builder has to refuse
InvalidConfig(c) ==
  \/ (c.rate.kind = "Frequency" /\ c.rate.value = 0)
  \/ (c.wakeup.kind = "WatermarkBytes" /\ c.wakeup.value = 0)

\* C27: for a config with Frequency(0) or WatermarkBytes(0) no attribute is
\* built and perf_event_open is not called
C27_InvalidConfigRejected ==
  InvalidConfig(cfg) => buildPc = "start"

\* C23: a mapping is unmapped at most once, with the length mmap was given,
\* and before the fd is closed; the fd is closed at most once; once the
\* RingBuffer is gone a mapping that was made is unmapped and an fd that was
\* opened is closed; after a failed fcntl or mmap the fd is closed and
\* nothing is unmapped
C23_ReleasedOnceInOrder ==
  /\ Cardinality(Calls("munmap")) <= 1
  /\ Cardinality(Calls("close")) <= 1
  /\ \A i \in Calls("munmap") :
       /\ \E j \in 1..(i - 1) : syscalls[j] = Mapping("mmap", syscalls[i].len)
       /\ \A k \in Calls("close") : i < k
  /\ \A k \in Calls("close") :
       \E j \in 1..(k - 1) : syscalls[j] = Syscall("perf_event_open", TRUE)
  /\ mapped <=> (Calls("munmap") = {} /\ \E j \in Calls("mmap") : syscalls[j].ok)
  /\ (fd = "open") <=>
       (Calls("close") = {} /\ Syscall("perf_event_open", TRUE) \in Range(syscalls))
  /\ startupFailed \in {"fcntl", "mmap"}
       => (Calls("close") # {} /\ Calls("munmap") = {})

\* the worker left on a stop: the RingBuffer was unmapped and its fd closed
C23_Witness ==
  /\ workerPc = "done"
  /\ headAtStop >= 0
  /\ Calls("munmap") # {}
  /\ Calls("close") # {}

\* C30: whenever head_offset_len evaluates its assertion, the offset of the
\* data region is at most the head it has computed
C30_AssertHolds ==
  workerPc = "assert" => KernelDataOffset <= rdHead

\* C25: if the kernel has written at least one record while the sampler was
\* running, before the stop signal is sent, then a vector that
\* join_with_remaining returns is not empty
C25_WrittenRecordReturned ==
  []((callerPc = "running" /\ data_head > 0)
       => []((callerPc = "returned" /\ joinResult = "ok") => returned # <<>>))

\* C24: when the decoder clears its readiness, the ring is drained: the
\* published data_tail equals the data_head the read observed, and every
\* record the kernel had written up to that head has been handed out
C24_DrainedThenCleared ==
  [][Decoder_clear_readiness
       => /\ data_tail = headSeen
          /\ \A k \in 1..headSeen :
               k \in Range(handed) \/ (0 - k) \in Range(handed)]_vars

C29_MiscDecoded ==
  (fncall.fn = "Misc_from" /\ result # <<>>)
    => /\ ~result[1].panicked
       /\ LET n == fncall.misc
              mode == n % (PERF_RECORD_MISC_CPUMODE_MASK + 1)
          IN  /\ mode = PERF_RECORD_MISC_CPUMODE_UNKNOWN => result[1].cpu_mode = "Unknown"
              /\ mode = PERF_RECORD_MISC_KERNEL => result[1].cpu_mode = "Kernel"
              /\ mode = PERF_RECORD_MISC_USER => result[1].cpu_mode = "User"
              /\ mode = PERF_RECORD_MISC_HYPERVISOR => result[1].cpu_mode = "Hypervisor"
              /\ mode = PERF_RECORD_MISC_GUEST_KERNEL => result[1].cpu_mode = "GuestKernel"
              /\ mode = PERF_RECORD_MISC_GUEST_USER => result[1].cpu_mode = "GuestUser"
              /\ result[1].multipurpose_lol
                   = ((n \div PERF_RECORD_MISC_MMAP_DATA) % 2 = 1)
              /\ result[1].exact_ip
                   = ((n \div PERF_RECORD_MISC_EXACT_IP) % 2 = 1)
              /\ result[1].reserved
                   = ((n \div PERF_RECORD_MISC_EXT_RESERVED) % 2 = 1)

====
